---- MODULE Spec2Model ----
(***************************************************************************)
(* Model of the incremental photo organizer of lulofoto.py (the date-floor *)
(* variant) and bak-foto.py (the baseline variant): date resolution, the   *)
(* state sidecar, the walk with its per-file decision, path planning with  *)
(* collision suffixes, the copy, and the save at the end of a run.         *)
(*                                                                         *)
(* Time: a datetime is an index into a sorted sample of datetimes          *)
(* (DateTimeOf); comparing indexes compares the datetimes.  0 is None.     *)
(* Source and destination trees are disjoint.  A listed directory is a     *)
(* snapshot (os.walk scans a directory when it reaches it).                *)
(***************************************************************************)
EXTENDS Integers, Sequences, FiniteSets, TLC

VARIABLES
    HAS_PIL,      \* module global: the image library was imported
    clock,        \* wall clock (datetime.now())
    srcExists,    \* the source directory exists
    src,          \* source tree: file -> [present, mtime, img, exif, ver]
    destExists,   \* the destination directory exists
    folders,      \* date folders that exist under the destination
    dest,         \* destination files: path -> [key, ver, whole]
    sidecar,      \* the state file in the destination directory
    pc,           \* per invocation: where organize_photos stands
    variant,      \* the script that is run: "lulofoto" or "bak-foto"
    opts,         \* per invocation: [force_all, start_date]
    last_sync,    \* per invocation: local last_sync (0 is None)
    copied_files, \* per invocation: local copied_files dict
    stats,        \* per invocation: the statistics dict
    walkDirs,     \* per invocation: directories os.walk has still to list
    todo,         \* per invocation: listed files of the current directory not yet visited
    cur,          \* per invocation: the file between path planning and copy
    config,       \* the user's config file (~/.lulofoto_config.json)
    argv,         \* per invocation: the command line main parsed
    hist,         \* per invocation: history of this run (observation only)
    env           \* budgets used and observations across runs (observation only)

vars == <<HAS_PIL, variant, clock, srcExists, src, destExists, folders, dest, sidecar,
          pc, opts, last_sync, copied_files, stats, walkDirs, todo, cur, config, argv, hist, env>>

fsVars == <<srcExists, src, destExists, folders, dest, sidecar>>
runVars == <<pc, opts, last_sync, copied_files, stats, walkDirs, todo, cur, hist>>

----------------------------------------------------------------------------
(* Bounds of the model *)

\* Invocations of organize_photos in a behaviour.
MaxRuns == 2

\* Events of the world in a behaviour: clock ticks, edits of the source tree,
\* I/O errors and interrupts.
MaxEvents == 1

\* Entries in the metadata of a file.
MaxExif == 3

\* Suffixed names a destination folder holds before the first run.
MaxSuffix == 3

None == 0

----------------------------------------------------------------------------
(* Datetimes *)

\* A sorted sample of datetimes; a time is an index into it.
Past ==
    << [Y |-> 1925, M |-> 1, D |-> 18, h |-> 14, m |-> 30],
       [Y |-> 2025, M |-> 1, D |-> 17, h |-> 23, m |-> 0],
       [Y |-> 2025, M |-> 1, D |-> 18, h |-> 0,  m |-> 0],
       [Y |-> 2025, M |-> 1, D |-> 18, h |-> 14, m |-> 30],
       [Y |-> 2025, M |-> 1, D |-> 19, h |-> 9,  m |-> 0] >>

\* The wall clock starts after the sampled past and moves a minute a tick.
DateTimeOf(t) ==
    IF t <= Len(Past) THEN Past[t]
    ELSE [Y |-> 2025, M |-> 2, D |-> 1, h |-> 10, m |-> t - Len(Past)]

Now0 == Len(Past) + 1

Digit == <<"0", "1", "2", "3", "4", "5", "6", "7", "8", "9">>

Pad2(n) == Digit[(n \div 10) + 1] \o Digit[(n % 10) + 1]

\* photo_date.strftime("%y%m%d")
strftime_yymmdd(t) ==
    Pad2(DateTimeOf(t).Y % 100) \o Pad2(DateTimeOf(t).M) \o Pad2(DateTimeOf(t).D)

\* datetime.isoformat() and datetime.fromisoformat(): the text of a datetime.
isoformat(t) == [json |-> "string", iso |-> TRUE, t |-> t]

JsonNull == [json |-> "null", iso |-> FALSE, t |-> 0]
JsonText == [json |-> "string", iso |-> FALSE, t |-> 0]

\* fromisoformat raises on anything that is not the text of a datetime.
fromisoformat_ok(v) == v.json = "string" /\ v.iso

fromisoformat(v) == v.t

----------------------------------------------------------------------------
(* The source tree *)

IMAGE_EXTENSIONS == {".jpg", ".jpeg", ".png", ".gif", ".bmp", ".tiff", ".tif",
                     ".heic", ".heif", ".raw", ".cr2", ".nef", ".arw", ".dng"}

\* str.lower() on the suffixes that occur.
lower(s) ==
    CASE s = ".JPG" -> ".jpg"
      [] OTHER -> s

Files ==
    { [dir |-> ".", base |-> "a", ext |-> ".jpg"],
      [dir |-> "d", base |-> "a", ext |-> ".jpg"],
      [dir |-> ".", base |-> "notes", ext |-> ".txt"] }

Dirs == <<".", "d">>

filename(f) == f.base \o f.ext

\* os.path.join
join(a, b) == a \o "/" \o b

\* os.path.relpath(source_path, source_dir)
file_key(f) == IF f.dir = "." THEN filename(f) ELSE join(f.dir, filename(f))

is_image_file(f) == lower(f.ext) \in IMAGE_EXTENSIONS

ImageFiles == {f \in Files : is_image_file(f)}

Keys == {file_key(f) : f \in ImageFiles}

----------------------------------------------------------------------------
(* get_photo_date *)

DATE_TAGS == {"DateTimeOriginal", "DateTime", "DateTimeDigitized"}

\* One EXIF entry: its tag, and its value as strptime sees it (parses to t, or not).
ExifEntry(tag, parses, t) == [tag |-> tag, parses |-> parses, t |-> t]

\* A choice by rank: DateTimeOriginal before DateTime before DateTimeDigitized,
\* wherever they stand in the metadata.
first_parsed_ranked(exif) ==
    LET at(tag) == {i \in 1..Len(exif) : exif[i].tag = tag /\ exif[i].parses}
        first(S) == exif[CHOOSE i \in S : \A j \in S : i <= j].t
    IN  IF at("DateTimeOriginal") # {} THEN first(at("DateTimeOriginal"))
        ELSE IF at("DateTime") # {} THEN first(at("DateTime"))
        ELSE IF at("DateTimeDigitized") # {} THEN first(at("DateTimeDigitized"))
        ELSE None

\* The loop over exif_data.items(): the first date entry that parses, else None.
RECURSIVE first_parsed(_)
first_parsed(exif) ==
    IF exif = <<>> THEN None
    ELSE IF Head(exif).tag \in DATE_TAGS /\ Head(exif).parses THEN Head(exif).t
    ELSE first_parsed(Tail(exif))

\* An EXIF branch that is taken whether or not the library was imported and
\* the file opens as an image.
exif_date_unguarded(has_pil, file) ==
    IF file.present THEN first_parsed(file.exif) ELSE None

\* The EXIF branch: None when the library is missing, the file cannot be opened
\* as an image (absent, unreadable, no _getexif), or nothing parses.
exif_date(has_pil, file) ==
    IF has_pil /\ file.present /\ file.img THEN first_parsed(file.exif) ELSE None

\* os.path.getmtime raises for a vanished file or on an I/O error.
getmtime_raises(file, io_error) == ~file.present \/ io_error

get_photo_date(has_pil, file, io_error) ==
    IF exif_date(has_pil, file) # None
    THEN [raised |-> FALSE, date |-> exif_date(has_pil, file)]
    ELSE IF getmtime_raises(file, io_error)
    THEN [raised |-> TRUE, date |-> None]
    ELSE [raised |-> FALSE, date |-> file.mtime]

----------------------------------------------------------------------------
(* The state sidecar: load_state and save_state *)

EmptyDict == <<>>

\* The sidecar file: absent, text that is not JSON (also an empty or cut-off
\* file), or a JSON object.
NoSidecar == [exists |-> FALSE, is_json |-> FALSE, obj |-> EmptyDict]
BrokenSidecar == [exists |-> TRUE, is_json |-> FALSE, obj |-> EmptyDict]
JsonSidecar(obj) == [exists |-> TRUE, is_json |-> TRUE, obj |-> obj]

DefaultState == [last_sync |-> None, copied_files |-> EmptyDict]

load_state(sc) ==
    IF ~sc.exists THEN DefaultState
    ELSE IF ~sc.is_json THEN DefaultState
    ELSE IF "last_sync" \in DOMAIN sc.obj
    THEN IF fromisoformat_ok(sc.obj.last_sync)
         THEN [sc.obj EXCEPT !.last_sync = fromisoformat(sc.obj.last_sync)]
         ELSE DefaultState
    ELSE sc.obj

\* What save_state dumps: state.copy() with last_sync as ISO text.
state_copy(ls, cf) ==
    [last_sync |-> IF ls # None THEN isoformat(ls) ELSE JsonNull, copied_files |-> cf]

\* state['last_sync'] and state['copied_files'] of organize_photos raise KeyError
\* when the loaded object lacks the key.
state_usable(st) == "last_sync" \in DOMAIN st /\ "copied_files" \in DOMAIN st

----------------------------------------------------------------------------
(* Path planning *)

exists(d, path) == path \in DOMAIN d

\* A suffix taken without looking whether that path exists too.
suffix_loop_once(d, dest_folder, base, ext, counter) ==
    join(dest_folder, base \o "_" \o ToString(counter) \o ext)

\* The while loop: name_1.ext, name_2.ext, ... until the path does not exist.
RECURSIVE suffix_loop(_, _, _, _, _)
suffix_loop(d, dest_folder, base, ext, counter) ==
    LET dest_path == join(dest_folder, base \o "_" \o ToString(counter) \o ext)
    IN  IF exists(d, dest_path)
        THEN suffix_loop(d, dest_folder, base, ext, counter + 1)
        ELSE dest_path

\* A planner that never looks whether the path exists.
plan_dest_path_unchecked(d, dest_folder, f) == join(dest_folder, filename(f))

\* A planner that keeps the file's place in the source tree under the bucket.
plan_dest_path_in_subdir(d, dest_folder, f) ==
    IF exists(d, join(dest_folder, file_key(f)))
    THEN suffix_loop(d, dest_folder, join(f.dir, f.base), f.ext, 1)
    ELSE join(dest_folder, file_key(f))

plan_dest_path(d, dest_folder, f) ==
    IF exists(d, join(dest_folder, filename(f)))
    THEN suffix_loop(d, dest_folder, f.base, f.ext, 1)
    ELSE join(dest_folder, filename(f))

----------------------------------------------------------------------------
(* organize_photos: the per-file decision *)

Procs == {1, 2}

NoFile == [dir |-> "", base |-> "", ext |-> ""]
NoCur == [f |-> NoFile, photo_date |-> None, date_folder |-> "", dest_path |-> ""]
NoOpts == [force_all |-> FALSE, start_date |-> None]

\* stats = {'total_found': 0, 'copied': 0, 'skipped': 0, 'errors': 0}
ZeroStats == [total_found |-> 0, copied |-> 0, skipped |-> 0, errors |-> 0]

count_found(st) == [st EXCEPT !.total_found = @ + 1]
count_copied(st) == [st EXCEPT !.copied = @ + 1]
\* A skip that counts the file as found once more instead.
count_skipped_as_found(st) == [st EXCEPT !.total_found = @ + 1]

count_skipped(st) == [st EXCEPT !.skipped = @ + 1]
\* An except branch that counts the file as skipped.
count_error_as_skipped(st) == [st EXCEPT !.skipped = @ + 1]

count_error(st) == [st EXCEPT !.errors = @ + 1]

\* Where an invocation can stand.
Idle == {"idle", "main", "returned_true", "returned_false", "raised", "killed"}
Running == {"walk", "copy", "save"}

\* The start-of-day dates --start-date can name.
StartDates == {None, 3}

Variants == {"lulofoto", "bak-foto"}

\* bak-foto.py has no --start-date.
Options(v) ==
    { o \in [force_all : BOOLEAN, start_date : StartDates] :
        v = "bak-foto" => o.start_date = None }

\* Where a per-file step can raise: getmtime inside get_photo_date, the
\* engine's own getmtime, makedirs of the date folder.
Faults == {"none", "get_photo_date", "getmtime", "makedirs"}

Class(c, d) == [class |-> c, photo_date |-> d]

\* The test with the comparison of mtime and last_sync turned round.
already_synced_inverted(o, ls, cf, file, key) ==
    /\ ~o.force_all
    /\ o.start_date = None
    /\ ls # None
    /\ file.mtime >= ls
    /\ key \in DOMAIN cf

\* The test without the force_all flag.
already_synced_unforced(o, ls, cf, file, key) ==
    /\ o.start_date = None
    /\ ls # None
    /\ file.mtime <= ls
    /\ key \in DOMAIN cf

\* The test without the look into copied_files.
already_synced_any_key(o, ls, cf, file, key) ==
    /\ ~o.force_all
    /\ o.start_date = None
    /\ ls # None
    /\ file.mtime <= ls

\* The already-synced test (lulofoto.py line 193, bak-foto.py line 150).
already_synced(o, ls, cf, file, key) ==
    /\ ~o.force_all
    /\ o.start_date = None
    /\ ls # None
    /\ file.mtime <= ls
    /\ key \in DOMAIN cf

\* The floor test with the comparison turned round.
before_start_date_inverted(o, photo_date) ==
    o.start_date # None /\ photo_date > o.start_date

\* The floor test that also turns away the floor date itself.
before_start_date_inclusive(o, photo_date) ==
    o.start_date # None /\ photo_date <= o.start_date

\* The date-floor test (lulofoto.py line 183).
before_start_date(o, photo_date) ==
    o.start_date # None /\ photo_date < o.start_date

\* The try block of lulofoto.py up to path planning: the date first.
decide_lulofoto(has_pil, o, ls, cf, file, key, fault) ==
    LET pd == get_photo_date(has_pil, file, fault = "get_photo_date")
    IN  IF pd.raised THEN Class("error", None)
        ELSE IF before_start_date(o, pd.date) THEN Class("skip_floor", pd.date)
        ELSE IF getmtime_raises(file, fault = "getmtime") THEN Class("error", pd.date)
        ELSE IF already_synced(o, ls, cf, file, key) THEN Class("skip_synced", pd.date)
        ELSE IF fault = "makedirs" THEN Class("error", pd.date)
        ELSE Class("copy", pd.date)

\* A try block of bak-foto.py that makes the already-synced test without the
\* stat of the file.
decide_bak_foto_unstatted(has_pil, o, ls, cf, file, key, fault) ==
    LET pd == get_photo_date(has_pil, file, fault = "get_photo_date")
    IN  IF already_synced(o, ls, cf, file, key) THEN Class("skip_synced", None)
        ELSE IF pd.raised THEN Class("error", None)
        ELSE IF fault = "makedirs" THEN Class("error", pd.date)
        ELSE Class("copy", pd.date)

\* The try block of bak-foto.py up to path planning: the date after the check.
decide_bak_foto(has_pil, o, ls, cf, file, key, fault) ==
    LET pd == get_photo_date(has_pil, file, fault = "get_photo_date")
    IN  IF getmtime_raises(file, fault = "getmtime") THEN Class("error", None)
        ELSE IF already_synced(o, ls, cf, file, key) THEN Class("skip_synced", None)
        ELSE IF pd.raised THEN Class("error", None)
        ELSE IF fault = "makedirs" THEN Class("error", pd.date)
        ELSE Class("copy", pd.date)

decide(v, has_pil, o, ls, cf, file, key, fault) ==
    IF v = "lulofoto"
    THEN decide_lulofoto(has_pil, o, ls, cf, file, key, fault)
    ELSE decide_bak_foto(has_pil, o, ls, cf, file, key, fault)

\* A record that starts the dict afresh.
record_copied_alone(cf, key, photo_date) == (key :> isoformat(photo_date))

\* copied_files[file_key] = photo_date.isoformat()
record_copied(cf, key, photo_date) == (key :> isoformat(photo_date)) @@ cf

\* What shutil.copy2 writes at dest_path.
copy_content(f, file, whole) == [key |-> file_key(f), ver |-> file.ver, whole |-> whole]

\* The destination tree after a write to dest_path.
write_file(d, dest_path, content) == (dest_path :> content) @@ d

----------------------------------------------------------------------------
(* Observation of a run: what the run met and did, read by the properties only *)

FileOf(key) == CHOOSE f \in ImageFiles : file_key(f) = key

NoHist ==
    [saves |-> 0,                       \* calls of save_state
     walked |-> FALSE,                  \* the walk has finished
     sidecar0 |-> NoSidecar,            \* the sidecar when the run started
     cf0 |-> EmptyDict,                 \* copied_files as loaded
     dest0 |-> EmptyDict,               \* the destination files when the run started
     listed |-> {},                     \* keys of the image files the walk listed
     class |-> [k \in Keys |-> ""],     \* how each file was classified
     date |-> [k \in Keys |-> None],    \* the photo date resolved for it
     seen |-> [k \in Keys |-> {}],      \* the destination paths that existed at planning
     path |-> [k \in Keys |-> ""],      \* the path planned for it
     wrote |-> {},                      \* the paths this run wrote
     rerun |-> FALSE,                   \* the invocation before returned True, same options
     clean |-> FALSE,                   \* and it met no error, saved, and no file changed
     failed |-> {},                     \* keys that were errors in the invocation before,
                                        \* no source file having changed since it started
     orphans |-> {}]                    \* copies an interrupted run left unrecorded

\* The invocation before this one returned True and had the options o.
Rerun(p, o) == pc[p] = "returned_true" /\ opts[p] = o

\* It also met no per-file error and saved its state, no source file has
\* changed since it started, and none is dated after its last_sync.
CleanRerun(p, o) ==
    /\ Rerun(p, o)
    /\ stats[p].errors = 0
    /\ sidecar = JsonSidecar(state_copy(last_sync[p], copied_files[p]))
    /\ ~env.dirty
    /\ \A f \in ImageFiles : src[f].present => src[f].mtime <= last_sync[p]

\* The files the invocation before, which returned True, counted as errors.
Failed(p) ==
    IF pc[p] = "returned_true" /\ ~env.dirty
    THEN {k \in Keys : hist[p].class[k] = "error"}
    ELSE {}

StartHist(p, o) ==
    [NoHist EXCEPT !.sidecar0 = sidecar, !.dest0 = dest, !.rerun = Rerun(p, o),
                   !.clean = CleanRerun(p, o), !.failed = Failed(p),
                   !.orphans = env.orphans]

----------------------------------------------------------------------------
(* organize_photos: the steps *)

\* organize_photos up to the walk: the source check, makedirs of the
\* destination, load_state and the two reads of the loaded state.
OrganizeStart(p, o) ==
    /\ pc[p] \in Idle
    /\ env.runs < MaxRuns
    /\ opts' = [opts EXCEPT ![p] = o]
    /\ env' = [env EXCEPT !.runs = @ + 1, !.orphans = {}, !.dirty = FALSE,
                          !.midrun = {m \in @ : m.run = env.runs},
                          !.overlap = @ \/ \E q \in Procs \ {p} : pc[q] \in Running]
    /\ stats' = [stats EXCEPT ![p] = ZeroStats]
    /\ todo' = [todo EXCEPT ![p] = {}]
    /\ cur' = [cur EXCEPT ![p] = NoCur]
    /\ IF ~srcExists
       THEN /\ pc' = [pc EXCEPT ![p] = "returned_false"]
            /\ hist' = [hist EXCEPT ![p] = StartHist(p, o)]
            /\ walkDirs' = [walkDirs EXCEPT ![p] = <<>>]
            /\ last_sync' = [last_sync EXCEPT ![p] = None]
            /\ copied_files' = [copied_files EXCEPT ![p] = EmptyDict]
            /\ UNCHANGED destExists
       ELSE /\ destExists' = TRUE
            /\ IF state_usable(load_state(sidecar))
               THEN /\ pc' = [pc EXCEPT ![p] = "walk"]
                    /\ last_sync' = [last_sync EXCEPT ![p] = load_state(sidecar).last_sync]
                    /\ copied_files' =
                         [copied_files EXCEPT ![p] = load_state(sidecar).copied_files]
                    /\ walkDirs' = [walkDirs EXCEPT ![p] = Dirs]
                    /\ hist' = [hist EXCEPT ![p] =
                                  [StartHist(p, o) EXCEPT !.cf0 = load_state(sidecar).copied_files]]
               ELSE /\ pc' = [pc EXCEPT ![p] = "raised"]
                    /\ walkDirs' = [walkDirs EXCEPT ![p] = <<>>]
                    /\ hist' = [hist EXCEPT ![p] = StartHist(p, o)]
                    /\ last_sync' = [last_sync EXCEPT ![p] = None]
                    /\ copied_files' = [copied_files EXCEPT ![p] = EmptyDict]
    /\ UNCHANGED <<HAS_PIL, variant, config, argv, clock, srcExists, src, folders, dest, sidecar>>

\* os.walk reaches the next directory and scans it.
WalkListDir(p) ==
    /\ pc[p] = "walk"
    /\ todo[p] = {}
    /\ walkDirs[p] # <<>>
    /\ todo' = [todo EXCEPT ![p] = {f \in Files : src[f].present /\ f.dir = Head(walkDirs[p])}]
    /\ walkDirs' = [walkDirs EXCEPT ![p] = Tail(@)]
    /\ hist' = [hist EXCEPT ![p].listed =
                  @ \cup {file_key(f) : f \in {g \in ImageFiles :
                                                 src[g].present /\ g.dir = Head(walkDirs[p])}}]
    /\ UNCHANGED <<HAS_PIL, variant, config, argv, clock, fsVars, pc, opts, last_sync, copied_files, stats, cur, env>>

\* A listed file that is no image: continue.
WalkSkipFile(p, f) ==
    /\ pc[p] = "walk"
    /\ f \in todo[p]
    /\ ~is_image_file(f)
    /\ todo' = [todo EXCEPT ![p] = @ \ {f}]
    /\ UNCHANGED <<HAS_PIL, variant, config, argv, clock, fsVars, pc, opts, last_sync, copied_files, stats,
                   walkDirs, cur, hist, env>>

\* One image file, from the count to the planned destination path.  A fault
\* is an I/O error at a call the path through the try block reaches.  (The
\* note that the file was rewritten during an earlier walk ends here.)
WalkFile(p, f, fault) ==
    /\ pc[p] = "walk"
    /\ f \in todo[p]
    /\ is_image_file(f)
    /\ fault # "none" =>
          /\ env.events < MaxEvents
          /\ decide(variant, HAS_PIL, opts[p], last_sync[p], copied_files[p], src[f], file_key(f), fault)
               # decide(variant, HAS_PIL, opts[p], last_sync[p], copied_files[p], src[f], file_key(f), "none")
    /\ env' = [env EXCEPT !.events = IF fault # "none" THEN @ + 1 ELSE @,
                          !.midrun = {m \in @ : m.key # file_key(f) \/ m.run = env.runs}]
    /\ todo' = [todo EXCEPT ![p] = @ \ {f}]
    /\ LET key == file_key(f)
           c == decide(variant, HAS_PIL, opts[p], last_sync[p], copied_files[p], src[f], key, fault)
           date_folder == strftime_yymmdd(c.photo_date)
           dest_path == plan_dest_path(dest, date_folder, f)
       IN  CASE c.class = "error" ->
                  /\ stats' = [stats EXCEPT ![p] = count_error(count_found(@))]
                  /\ hist' = [hist EXCEPT ![p].class[key] = "error", ![p].date[key] = c.photo_date]
                  /\ UNCHANGED <<pc, cur, folders>>
             [] c.class \in {"skip_floor", "skip_synced"} ->
                  /\ stats' = [stats EXCEPT ![p] = count_skipped(count_found(@))]
                  /\ hist' = [hist EXCEPT ![p].class[key] = c.class, ![p].date[key] = c.photo_date]
                  /\ UNCHANGED <<pc, cur, folders>>
             [] c.class = "copy" ->
                  /\ stats' = [stats EXCEPT ![p] = count_found(@)]
                  /\ folders' = folders \cup {date_folder}
                  /\ cur' = [cur EXCEPT ![p] =
                               [f |-> f, photo_date |-> c.photo_date,
                                date_folder |-> date_folder, dest_path |-> dest_path]]
                  /\ pc' = [pc EXCEPT ![p] = "copy"]
                  /\ hist' = [hist EXCEPT ![p].class[key] = "copy", ![p].date[key] = c.photo_date,
                                          ![p].seen[key] = DOMAIN dest, ![p].path[key] = dest_path]
    /\ UNCHANGED <<HAS_PIL, variant, config, argv, clock, srcExists, src, destExists, dest, sidecar,
                   opts, last_sync, copied_files, walkDirs>>

\* A copy step that also saves the state after each copy.
CopyFile_saving(p) ==
    /\ pc[p] = "copy"
    /\ src[cur[p].f].present
    /\ dest' = write_file(dest, cur[p].dest_path, copy_content(cur[p].f, src[cur[p].f], TRUE))
    /\ copied_files' = [copied_files EXCEPT ![p] =
                          record_copied(@, file_key(cur[p].f), cur[p].photo_date)]
    /\ sidecar' = JsonSidecar(state_copy(clock, copied_files'[p]))
    /\ stats' = [stats EXCEPT ![p] = count_copied(@)]
    /\ hist' = [hist EXCEPT ![p].class[file_key(cur[p].f)] = "copied",
                            ![p].wrote = @ \cup {cur[p].dest_path},
                            ![p].saves = @ + 1]
    /\ env' = [env EXCEPT !.writes = @ + 1, !.copied = @ \cup {file_key(cur[p].f)}]
    /\ pc' = [pc EXCEPT ![p] = "walk"]
    /\ cur' = [cur EXCEPT ![p] = NoCur]
    /\ UNCHANGED <<HAS_PIL, variant, config, argv, clock, srcExists, src, destExists, folders,
                   opts, last_sync, walkDirs, todo>>

\* shutil.copy2 succeeds; the key is recorded and the file counted.
CopyFile(p) ==
    /\ pc[p] = "copy"
    /\ src[cur[p].f].present
    /\ dest' = write_file(dest, cur[p].dest_path, copy_content(cur[p].f, src[cur[p].f], TRUE))
    /\ copied_files' = [copied_files EXCEPT ![p] =
                          record_copied(@, file_key(cur[p].f), cur[p].photo_date)]
    /\ stats' = [stats EXCEPT ![p] = count_copied(@)]
    /\ hist' = [hist EXCEPT ![p].class[file_key(cur[p].f)] = "copied",
                            ![p].wrote = @ \cup {cur[p].dest_path}]
    /\ env' = [env EXCEPT !.writes = @ + 1, !.copied = @ \cup {file_key(cur[p].f)}]
    /\ pc' = [pc EXCEPT ![p] = "walk"]
    /\ cur' = [cur EXCEPT ![p] = NoCur]
    /\ UNCHANGED <<HAS_PIL, variant, config, argv, clock, srcExists, src, destExists, folders, sidecar,
                   opts, last_sync, walkDirs, todo>>

\* What a failed shutil.copy2 leaves at dest_path: nothing, a cut-off file, or
\* the whole file (copyfile done, copystat failed).
Residues == {"none", "partial", "whole"}

\* shutil.copy2 raises: the file is an error, whatever it left behind.
CopyFails(p, residue) ==
    /\ pc[p] = "copy"
    /\ IF src[cur[p].f].present
       THEN /\ env.events < MaxEvents
            /\ env' = [env EXCEPT !.events = @ + 1,
                                  !.writes = IF residue = "none" THEN @ ELSE @ + 1]
       ELSE residue = "none" /\ UNCHANGED env
    /\ dest' = IF residue = "none" THEN dest
               ELSE write_file(dest, cur[p].dest_path,
                               copy_content(cur[p].f, src[cur[p].f], residue = "whole"))
    /\ stats' = [stats EXCEPT ![p] = count_error(@)]
    /\ hist' = [hist EXCEPT ![p].class[file_key(cur[p].f)] = "error",
                            ![p].wrote = IF residue = "none" THEN @ ELSE @ \cup {cur[p].dest_path}]
    /\ pc' = [pc EXCEPT ![p] = "walk"]
    /\ cur' = [cur EXCEPT ![p] = NoCur]
    /\ UNCHANGED <<HAS_PIL, variant, config, argv, clock, srcExists, src, destExists, folders, sidecar,
                   opts, last_sync, copied_files, walkDirs, todo>>

\* A save_state whose failure to open the sidecar is not caught.
WalkDone_raising(p, open_fails) ==
    /\ pc[p] = "walk"
    /\ todo[p] = {}
    /\ walkDirs[p] = <<>>
    /\ open_fails => env.events < MaxEvents
    /\ env' = [env EXCEPT !.events = IF open_fails THEN @ + 1 ELSE @]
    /\ last_sync' = [last_sync EXCEPT ![p] = clock]
    /\ hist' = [hist EXCEPT ![p].saves = @ + 1, ![p].walked = TRUE]
    /\ IF open_fails
       THEN /\ pc' = [pc EXCEPT ![p] = "raised"]
            /\ UNCHANGED sidecar
       ELSE /\ pc' = [pc EXCEPT ![p] = "save"]
            /\ sidecar' = BrokenSidecar
    /\ UNCHANGED <<HAS_PIL, variant, config, argv, clock, srcExists, src, destExists, folders, dest,
                   opts, copied_files, stats, walkDirs, todo, cur>>

\* The walk is over: last_sync = datetime.now(), and save_state opens the
\* sidecar for writing, which empties it, or fails with a warning.
WalkDone(p, open_fails) ==
    /\ pc[p] = "walk"
    /\ todo[p] = {}
    /\ walkDirs[p] = <<>>
    /\ open_fails => env.events < MaxEvents
    /\ env' = [env EXCEPT !.events = IF open_fails THEN @ + 1 ELSE @]
    /\ last_sync' = [last_sync EXCEPT ![p] = clock]
    /\ hist' = [hist EXCEPT ![p].saves = @ + 1, ![p].walked = TRUE]
    /\ IF open_fails
       THEN /\ pc' = [pc EXCEPT ![p] = "returned_true"]
            /\ UNCHANGED sidecar
       ELSE /\ pc' = [pc EXCEPT ![p] = "save"]
            /\ sidecar' = BrokenSidecar
    /\ UNCHANGED <<HAS_PIL, variant, config, argv, clock, srcExists, src, destExists, folders, dest,
                   opts, copied_files, stats, walkDirs, todo, cur>>

\* json.dump writes the state, or fails part-way with a warning; then the
\* summary is printed and organize_photos returns True.
SaveDump(p, dump_fails) ==
    /\ pc[p] = "save"
    /\ dump_fails => env.events < MaxEvents
    /\ env' = [env EXCEPT !.events = IF dump_fails THEN @ + 1 ELSE @]
    /\ sidecar' = IF dump_fails THEN BrokenSidecar
                  ELSE JsonSidecar(state_copy(last_sync[p], copied_files[p]))
    /\ pc' = [pc EXCEPT ![p] = "returned_true"]
    /\ UNCHANGED <<HAS_PIL, variant, config, argv, clock, srcExists, src, destExists, folders, dest,
                   opts, last_sync, copied_files, stats, walkDirs, todo, cur, hist>>

\* The copies of this run that no sidecar records, should the run stop now.
Unrecorded(p) ==
    { [key |-> k, path |-> hist[p].path[k], ver |-> dest[hist[p].path[k]].ver,
       date_folder |-> strftime_yymmdd(hist[p].date[k])] :
        k \in {j \in Keys : hist[p].class[j] = "copied" /\ j \notin DOMAIN hist[p].cf0} }

\* sys.exit(0 if success else 1) of main; an exception that leaves
\* organize_photos ends the process with status 1.
exit_status(at) ==
    CASE at = "returned_true" -> 0
      [] at \in {"returned_false", "raised"} -> 1

\* The process is interrupted (a signal, a power cut) between two steps.
Kill(p) ==
    /\ pc[p] \in Running
    /\ env.events < MaxEvents
    /\ env' = [env EXCEPT !.events = @ + 1,
                          !.orphans = IF ~hist[p].walked THEN Unrecorded(p) ELSE {}]
    /\ pc' = [pc EXCEPT ![p] = "killed"]
    /\ UNCHANGED <<HAS_PIL, variant, config, argv, clock, fsVars, opts, last_sync, copied_files, stats,
                   walkDirs, todo, cur, hist>>

----------------------------------------------------------------------------
(* The world around the program *)

Tick ==
    /\ env.events < MaxEvents
    /\ clock' = clock + 1
    /\ env' = [env EXCEPT !.events = @ + 1]
    /\ UNCHANGED <<HAS_PIL, variant, config, argv, fsVars, runVars>>

\* A source image is rewritten in place: new content, mtime now.
ModifyFile(f) ==
    /\ src[f].present
    /\ is_image_file(f)
    /\ env.events < MaxEvents
    /\ src' = [src EXCEPT ![f].ver = @ + 1, ![f].mtime = clock]
    /\ env' = [env EXCEPT !.events = @ + 1, !.dirty = TRUE,
                          !.midrun = IF \E p \in Procs : pc[p] \in {"walk", "copy"}
                                     THEN @ \cup {[key |-> file_key(f), run |-> env.runs]}
                                     ELSE @]
    /\ UNCHANGED <<HAS_PIL, variant, config, argv, clock, srcExists, destExists, folders, dest, sidecar, runVars>>

\* A source image vanishes.
RemoveFile(f) ==
    /\ src[f].present
    /\ is_image_file(f)
    /\ env.events < MaxEvents
    /\ src' = [src EXCEPT ![f].present = FALSE]
    /\ env' = [env EXCEPT !.events = @ + 1, !.dirty = TRUE]
    /\ UNCHANGED <<HAS_PIL, variant, config, argv, clock, srcExists, destExists, folders, dest, sidecar, runVars>>

----------------------------------------------------------------------------
(* main of lulofoto.py: the command line and the saved configuration *)

\* --start-date on the command line: not given (None), or its text.
NoStartDate == [given |-> FALSE, text |-> ""]
StartDateArg(text) == [given |-> TRUE, text |-> text]

\* `if args.start_date:` - None and the empty string are both false.
truthy(arg) == arg.given /\ arg.text # ""

\* datetime.strptime(text, "%y%m%d") on the texts that occur: the date, or
\* ValueError (the empty text, a day the month has not, another format).
strptime_ok(text) == text = "250118"
strptime_yymmdd(text) == CASE text = "250118" -> 3

NoArgs == [source |-> FALSE, destination |-> FALSE, force_all |-> FALSE,
           start_date |-> NoStartDate]

\* The command lines tried.
Args ==
    [source : BOOLEAN, destination : BOOLEAN, force_all : BOOLEAN,
     start_date : {NoStartDate, StartDateArg(""), StartDateArg("250118"),
                   StartDateArg("250230")}]

\* The config file: absent, or a JSON object with source, destination and
\* start_date (text, "" for null).
NoConfig == [exists |-> FALSE, source |-> FALSE, destination |-> FALSE, start_date |-> ""]
SavedConfig(start_date) ==
    [exists |-> TRUE, source |-> TRUE, destination |-> TRUE, start_date |-> start_date]

EmptyConfig == [source |-> FALSE, destination |-> FALSE, start_date |-> None]

\* load_config: {} when the file is absent or its start_date does not parse.
load_config(c) ==
    IF ~c.exists THEN EmptyConfig
    ELSE IF c.start_date # "" /\ ~strptime_ok(c.start_date) THEN EmptyConfig
    ELSE [source |-> c.source, destination |-> c.destination,
          start_date |-> IF c.start_date # "" THEN strptime_yymmdd(c.start_date) ELSE None]

\* main has what it needs to call organize_photos.
have_paths(a, c) ==
    /\ a.source \/ load_config(c).source
    /\ a.destination \/ load_config(c).destination

\* The except ValueError branch: sys.exit(1).
start_date_rejected(a) == truthy(a.start_date) /\ ~strptime_ok(a.start_date.text)

\* The start_date main hands to organize_photos.
main_start_date(a, c) ==
    IF truthy(a.start_date) THEN strptime_yymmdd(a.start_date.text)
    ELSE load_config(c).start_date

\* main up to the call: parse_args, load_config, the two checks with
\* sys.exit(1), the banner.
MainParse(p, a) ==
    /\ pc[p] \in {"idle", "exit_0", "exit_1", "raised", "killed"}
    /\ env.runs < MaxRuns
    /\ argv' = [argv EXCEPT ![p] = a]
    /\ pc' = [pc EXCEPT ![p] =
                IF ~have_paths(a, config) \/ start_date_rejected(a) THEN "exit_1" ELSE "main"]
    /\ UNCHANGED <<HAS_PIL, variant, clock, fsVars, config, opts, last_sync, copied_files,
                   stats, walkDirs, todo, cur, hist, env>>

\* success = organize_photos(source, destination, args.force_all, start_date)
MainCall(p) ==
    /\ pc[p] = "main"
    /\ OrganizeStart(p, [force_all |-> argv[p].force_all,
                         start_date |-> main_start_date(argv[p], config)])

\* After the call: save_config when the command line gave a value (a failure
\* to write is a warning), then sys.exit(0 if success else 1).
MainExit(p, write_fails) ==
    /\ pc[p] \in {"returned_true", "returned_false"}
    /\ write_fails =>
          /\ env.events < MaxEvents
          /\ argv[p].source \/ argv[p].destination \/ truthy(argv[p].start_date)
    /\ env' = [env EXCEPT !.events = IF write_fails THEN @ + 1 ELSE @]
    /\ config' =
          IF (argv[p].source \/ argv[p].destination \/ truthy(argv[p].start_date))
             /\ ~write_fails
          THEN SavedConfig(IF opts[p].start_date # None
                           THEN strftime_yymmdd(opts[p].start_date) ELSE "")
          ELSE config
    /\ pc' = [pc EXCEPT ![p] = IF exit_status(pc[p]) = 0 THEN "exit_0" ELSE "exit_1"]
    /\ UNCHANGED <<HAS_PIL, variant, clock, fsVars, argv, opts, last_sync, copied_files,
                   stats, walkDirs, todo, cur, hist>>

----------------------------------------------------------------------------
(* Initial states and specifications *)

SourceFile(mtime, exif) ==
    [present |-> TRUE, mtime |-> mtime, img |-> TRUE, exif |-> exif, ver |-> 1]

NoSourceFile == [present |-> FALSE, mtime |-> None, img |-> FALSE, exif |-> <<>>, ver |-> 0]

\* The sampled source trees: a.jpg taken 2025-01-18 by its EXIF data (its
\* mtime is the day before); d/a.jpg taken 2025-01-18 by its mtime, or
\* 1925-01-18 by the one EXIF date entry that parses; notes.txt is no image.
SourceTrees ==
    { [f \in Files |->
         CASE file_key(f) = "a.jpg" ->
                  SourceFile(2, <<ExifEntry("DateTimeOriginal", TRUE, 4)>>)
           [] file_key(f) = "d/a.jpg" -> SourceFile(4, e)
           [] OTHER -> [SourceFile(5, <<>>) EXCEPT !.img = FALSE]] :
      e \in {<<>>, <<ExifEntry("Make", FALSE, 0), ExifEntry("DateTime", FALSE, 0),
                     ExifEntry("DateTimeDigitized", TRUE, 1)>>} }

\* Source trees for date resolution: a.jpg as above; d/a.jpg without metadata,
\* with metadata in which no date entry parses, with a date entry in a file
\* the image library cannot read, taken at the very start of 2025-01-18, or
\* stamped by a clock that runs ahead of this machine's.
DateTrees ==
    { [f \in Files |->
         CASE file_key(f) = "a.jpg" ->
                  SourceFile(2, <<ExifEntry("DateTimeOriginal", TRUE, 4)>>)
           [] file_key(f) = "d/a.jpg" -> d
           [] OTHER -> [SourceFile(5, <<>>) EXCEPT !.img = FALSE]] :
      d \in { SourceFile(4, <<>>),
              SourceFile(4, <<ExifEntry("Make", FALSE, 0), ExifEntry("DateTime", FALSE, 0)>>),
              [SourceFile(4, <<ExifEntry("DateTimeDigitized", TRUE, 1)>>) EXCEPT !.img = FALSE],
              SourceFile(5, <<ExifEntry("DateTime", TRUE, 3)>>),
              SourceFile(Now0 + 1, <<>>) } }

\* The sidecars a first run can meet: none, one left by a run over an empty
\* source, or one written by hand or cut off.
SidecarInputs ==
    { NoSidecar,
      BrokenSidecar,
      JsonSidecar([last_sync |-> JsonNull, copied_files |-> EmptyDict]),
      JsonSidecar([last_sync |-> JsonText, copied_files |-> EmptyDict]),
      JsonSidecar([copied_files |-> EmptyDict]),
      JsonSidecar([last_sync |-> isoformat(5)]),
      JsonSidecar([last_sync |-> isoformat(5), copied_files |-> EmptyDict]) }

\* Those of them the main specification starts from.
SidecarSample ==
    { NoSidecar,
      JsonSidecar([copied_files |-> EmptyDict]) }

InitRuns ==
    /\ pc = [p \in Procs |-> "idle"]
    /\ opts = [p \in Procs |-> NoOpts]
    /\ last_sync = [p \in Procs |-> None]
    /\ copied_files = [p \in Procs |-> EmptyDict]
    /\ stats = [p \in Procs |-> ZeroStats]
    /\ walkDirs = [p \in Procs |-> <<>>]
    /\ todo = [p \in Procs |-> {}]
    /\ cur = [p \in Procs |-> NoCur]
    /\ argv = [p \in Procs |-> NoArgs]
    /\ hist = [p \in Procs |-> NoHist]
    /\ env = [runs |-> 0, events |-> 0, writes |-> 0,
              copied |-> {}, orphans |-> {}, dirty |-> FALSE, overlap |-> FALSE,
              midrun |-> {}]

InitWorld ==
    /\ HAS_PIL = TRUE
    /\ config = NoConfig
    /\ variant \in Variants
    /\ clock = Now0
    /\ \/ srcExists = TRUE /\ src \in SourceTrees
       \/ srcExists = FALSE /\ src = [f \in Files |-> NoSourceFile]
    /\ folders = {}
    /\ dest = EmptyDict

Init ==
    /\ InitWorld
    /\ sidecar \in SidecarSample
    /\ destExists = sidecar.exists
    /\ InitRuns

\* The same program started on every kind of sidecar.
InitSidecar ==
    /\ InitWorld
    /\ sidecar \in SidecarInputs
    /\ destExists = sidecar.exists
    /\ InitRuns

\* Either build (with the image library or without it) on the date trees,
\* first run without a sidecar.
InitDates ==
    /\ HAS_PIL \in BOOLEAN
    /\ variant \in Variants
    /\ clock = Now0
    /\ srcExists = TRUE /\ src \in DateTrees
    /\ config = NoConfig
    /\ folders = {}
    /\ dest = EmptyDict
    /\ sidecar = NoSidecar
    /\ destExists = FALSE
    /\ InitRuns

\* The steps of an invocation once organize_photos has started.
Walk(p) ==
    \/ WalkListDir(p)
    \/ \E f \in Files : WalkSkipFile(p, f)
    \/ \E f \in Files, fault \in Faults : WalkFile(p, f, fault)
    \/ CopyFile(p)
    \/ \E residue \in Residues : CopyFails(p, residue)
    \/ \E open_fails \in BOOLEAN : WalkDone(p, open_fails)
    \/ \E dump_fails \in BOOLEAN : SaveDump(p, dump_fails)
    \/ Kill(p)

Step(p) ==
    \/ \E o \in Options(variant) : OrganizeStart(p, o)
    \/ Walk(p)

\* lulofoto.py run from the command line.
Main(p) ==
    \/ \E a \in Args : MainParse(p, a)
    \/ MainCall(p)
    \/ Walk(p)
    \/ \E write_fails \in BOOLEAN : MainExit(p, write_fails)

World ==
    \/ Tick
    \/ \E f \in Files : ModifyFile(f)
    \/ \E f \in Files : RemoveFile(f)

\* One invocation at a time.
Next == Step(1) \/ World

Spec == Init /\ [][Next]_vars

SpecSidecar == InitSidecar /\ [][Next]_vars

SpecDates == InitDates /\ [][Next]_vars

\* The entries metadata are built from: one that is no date, and date entries
\* of the three tags whose values parse or do not.
ExifEntries ==
    { ExifEntry("Make", FALSE, 0),
      ExifEntry("DateTimeOriginal", TRUE, 4), ExifEntry("DateTimeOriginal", FALSE, 0),
      ExifEntry("DateTime", TRUE, 3), ExifEntry("DateTime", FALSE, 0),
      ExifEntry("DateTimeDigitized", TRUE, 1) }

\* exif_data.items() in every order and with repeats, up to MaxExif entries.
ExifLists == UNION { [1..n -> ExifEntries] : n \in 0..MaxExif }

\* Source trees in which d/a.jpg carries any of these metadata.
ExifTrees ==
    { [f \in Files |->
         CASE file_key(f) = "a.jpg" ->
                  SourceFile(2, <<ExifEntry("DateTimeOriginal", TRUE, 4)>>)
           [] file_key(f) = "d/a.jpg" -> SourceFile(5, e)
           [] OTHER -> [SourceFile(5, <<>>) EXCEPT !.img = FALSE]] :
      e \in ExifLists }

\* A single first run that nothing disturbs, on either build.
InitExif ==
    /\ HAS_PIL \in BOOLEAN
    /\ variant \in Variants
    /\ clock = Now0
    /\ srcExists = TRUE /\ src \in ExifTrees
    /\ config = NoConfig
    /\ folders = {}
    /\ dest = EmptyDict
    /\ sidecar = NoSidecar
    /\ destExists = FALSE
    /\ pc = [p \in Procs |-> "idle"]
    /\ opts = [p \in Procs |-> NoOpts]
    /\ last_sync = [p \in Procs |-> None]
    /\ copied_files = [p \in Procs |-> EmptyDict]
    /\ stats = [p \in Procs |-> ZeroStats]
    /\ walkDirs = [p \in Procs |-> <<>>]
    /\ todo = [p \in Procs |-> {}]
    /\ cur = [p \in Procs |-> NoCur]
    /\ argv = [p \in Procs |-> NoArgs]
    /\ hist = [p \in Procs |-> NoHist]
    /\ env = [runs |-> MaxRuns - 1, events |-> MaxEvents, writes |-> 0,
              copied |-> {}, orphans |-> {}, dirty |-> FALSE, overlap |-> FALSE,
              midrun |-> {}]

\* One run of organize_photos without I/O faults, interruption or changes
\* to the source.
NextExif ==
    \/ \E o \in Options(variant) : OrganizeStart(1, o)
    \/ WalkListDir(1)
    \/ \E f \in Files : WalkSkipFile(1, f)
    \/ \E f \in Files : WalkFile(1, f, "none")
    \/ CopyFile(1)
    \/ WalkDone(1, FALSE)
    \/ SaveDump(1, FALSE)

SpecExif == InitExif /\ [][NextExif]_vars

\* A file that was in the destination before the program first ran.
ForeignFile == [key |-> "", ver |-> 0, whole |-> TRUE]

\* The names in folder 250118 that the sampled files can collide with.
BucketNames ==
    {join("250118", "a.jpg")}
    \cup {join("250118", "a_" \o ToString(n) \o ".jpg") : n \in 1..MaxSuffix}

\* Destinations holding any of them, also with gaps in the numbering.
BucketTrees ==
    { IF S = {} THEN EmptyDict ELSE [path \in S |-> ForeignFile] : S \in SUBSET BucketNames }

\* A single first run that nothing disturbs, into such a destination.
InitBucket ==
    /\ HAS_PIL = TRUE
    /\ variant \in Variants
    /\ clock = Now0
    /\ srcExists = TRUE /\ src \in SourceTrees
    /\ config = NoConfig
    /\ dest \in BucketTrees
    /\ folders = IF dest = EmptyDict THEN {} ELSE {"250118"}
    /\ sidecar = NoSidecar
    /\ destExists = (dest # EmptyDict)
    /\ pc = [p \in Procs |-> "idle"]
    /\ opts = [p \in Procs |-> NoOpts]
    /\ last_sync = [p \in Procs |-> None]
    /\ copied_files = [p \in Procs |-> EmptyDict]
    /\ stats = [p \in Procs |-> ZeroStats]
    /\ walkDirs = [p \in Procs |-> <<>>]
    /\ todo = [p \in Procs |-> {}]
    /\ cur = [p \in Procs |-> NoCur]
    /\ argv = [p \in Procs |-> NoArgs]
    /\ hist = [p \in Procs |-> NoHist]
    /\ env = [runs |-> MaxRuns - 1, events |-> MaxEvents, writes |-> 0,
              copied |-> {}, orphans |-> {}, dirty |-> FALSE, overlap |-> FALSE,
              midrun |-> {}]

SpecBucket == InitBucket /\ [][NextExif]_vars

\* copied_files after a run that copied every image of the tree.
SyncedFiles(tree) ==
    [k \in Keys |-> isoformat(get_photo_date(TRUE, tree[FileOf(k)], FALSE).date)]

\* The destination after that run: a.jpg first, d/a.jpg beside it.
SyncedDest(tree) ==
    LET first == write_file(EmptyDict, join("250118", "a.jpg"),
                            copy_content(FileOf("a.jpg"), tree[FileOf("a.jpg")], TRUE))
    IN  write_file(first, join("250118", "a_1.jpg"),
                   copy_content(FileOf("d/a.jpg"), tree[FileOf("d/a.jpg")], TRUE))

\* The source as that run found it, or with one image rewritten since.
Rewritten(tree) ==
    {tree} \cup { [tree EXCEPT ![f].ver = @ + 1, ![f].mtime = Now0] : f \in ImageFiles }

\* The program after an earlier sync at time 5 of a sampled tree: the sidecar
\* records both images, the destination holds their copies.
InitSynced ==
    /\ HAS_PIL = TRUE
    /\ variant \in Variants
    /\ clock = Now0
    /\ srcExists = TRUE
    /\ config = NoConfig
    /\ \E tree \in SourceTrees :
          /\ src \in Rewritten(tree)
          /\ dest = SyncedDest(tree)
          /\ sidecar = JsonSidecar(state_copy(5, SyncedFiles(tree)))
    /\ folders = {"250118"}
    /\ destExists = TRUE
    /\ InitRuns

SpecSynced == InitSynced /\ [][Next]_vars

\* lulofoto.py from the command line, with or without a saved configuration.
ConfigInputs == {NoConfig, SavedConfig(""), SavedConfig("250118"), SavedConfig("250230")}

InitMain ==
    /\ HAS_PIL = TRUE
    /\ variant = "lulofoto"
    /\ config \in ConfigInputs
    /\ clock = Now0
    /\ \/ srcExists = TRUE /\ src \in SourceTrees
       \/ srcExists = FALSE /\ src = [f \in Files |-> NoSourceFile]
    /\ folders = {}
    /\ dest = EmptyDict
    /\ sidecar = NoSidecar
    /\ destExists = FALSE
    /\ InitRuns

NextMain == Main(1) \/ World

SpecMain == InitMain /\ [][NextMain]_vars

\* Two invocations at a time against the same source and destination: two
\* processes started by the user, nothing in the code keeps them apart.
InitConcurrent ==
    /\ InitWorld
    /\ srcExists
    /\ sidecar = NoSidecar
    /\ destExists = FALSE
    /\ InitRuns

\* Invocation 1 is the one that starts first; the source tree and the clock
\* are left alone meanwhile (I/O errors and interrupts still occur).
NextConcurrent == Step(1) \/ (pc[1] # "idle" /\ Step(2))

SpecConcurrent == InitConcurrent /\ [][NextConcurrent]_vars

----------------------------------------------------------------------------
(* Properties *)

Classified == {"copied", "skip_floor", "skip_synced", "error"}

\* The keys recorded in the sidecar on disk.
SidecarKeys ==
    IF sidecar.exists /\ sidecar.is_json /\ "copied_files" \in DOMAIN sidecar.obj
    THEN DOMAIN sidecar.obj.copied_files ELSE {}

\* The entry of key k in the run's copied_files is the loaded one (or none).
EntryUntouched(p, k) ==
    /\ k \in DOMAIN copied_files[p] <=> k \in DOMAIN hist[p].cf0
    /\ k \in DOMAIN copied_files[p] => copied_files[p][k] = hist[p].cf0[k]

\* The plain and the first suffixed path of key k in the folder of its date.
PlainPath(p, k) == join(strftime_yymmdd(hist[p].date[k]), filename(FileOf(k)))
FirstSuffixPath(p, k) ==
    join(strftime_yymmdd(hist[p].date[k]), FileOf(k).base \o "_1" \o FileOf(k).ext)

\* C1 as stated: after a run that returned True, a run with the same options
\* and forceAll=false, with no event of the world at all (no edit, no error, no
\* tick), copies nothing and skips every file it finds: date floor set or not.
C1_Original ==
    \A p \in Procs :
        (pc[p] = "returned_true" /\ hist[p].rerun /\ ~opts[p].force_all /\ env.events = 0)
        => (stats[p].copied = 0 /\ stats[p].skipped = stats[p].total_found)

\* C1 amended: with forceAll=false and no date floor in both runs, if the first
\* run returned True with no per-file error and saved its state, no source file
\* changed since the first run started or is dated after its last_sync, and the
\* second run meets no per-file error, then the second run copies nothing and
\* its skipped count equals its total_found.
C1_Idempotence ==
    \A p \in Procs :
        (/\ pc[p] = "returned_true"
         /\ hist[p].rerun /\ hist[p].clean
         /\ ~opts[p].force_all /\ opts[p].start_date = None
         /\ stats[p].errors = 0
         /\ ~env.dirty)
        => (stats[p].copied = 0 /\ stats[p].skipped = stats[p].total_found)

C1_Witness ==
    /\ pc[1] = "returned_true"
    /\ hist[1].rerun /\ hist[1].clean
    /\ ~opts[1].force_all /\ opts[1].start_date = None
    /\ stats[1].errors = 0
    /\ ~env.dirty
    /\ stats[1].total_found = 2
    /\ stats[1].skipped = 2

\* C2: no overwrite with one invocation at a time: the path planned for a copy
\* does not exist when the copy is about to be made, every file that was in the
\* destination when a run started is still there with the same content, and
\* every write made a new path (so files of the same name in one bucket sit
\* under pairwise distinct names).
C2_NoOverwrite ==
    /\ Cardinality(DOMAIN dest) = env.writes
    /\ \A p \in Procs :
        /\ pc[p] = "copy" => cur[p].dest_path \notin DOMAIN dest
        /\ \A path \in DOMAIN hist[p].dest0 :
              path \in DOMAIN dest /\ dest[path] = hist[p].dest0[path]

C2_Witness ==
    /\ "250118/a.jpg" \in DOMAIN dest
    /\ "250118/a_1.jpg" \in DOMAIN dest
    /\ dest["250118/a.jpg"].key # dest["250118/a_1.jpg"].key
    /\ pc[1] = "returned_true"

\* C3 as stated: in a run with a date floor, a file whose photo date is before
\* the floor is skipped, nothing is copied for it, and its key is in no
\* copied_files after the run, in memory or in the sidecar.
C3_Original ==
    \A p \in Procs : \A k \in Keys :
        (/\ pc[p] = "returned_true"
         /\ opts[p].start_date # None
         /\ hist[p].date[k] # None /\ hist[p].date[k] < opts[p].start_date
         /\ hist[p].class[k] # "")
        => (/\ hist[p].class[k] = "skip_floor"
            /\ \A path \in hist[p].wrote : dest[path].key # k
            /\ k \notin DOMAIN copied_files[p]
            /\ k \notin SidecarKeys)

\* C3 amended: in a run with a date floor, a file whose photo date is before
\* the floor is skipped, nothing is copied for it in that run, and the run
\* neither adds nor updates its entry in copied_files (an entry of an earlier
\* run stays).
C3_DateFloor ==
    \A p \in Procs : \A k \in Keys :
        (/\ opts[p].start_date # None
         /\ hist[p].date[k] # None /\ hist[p].date[k] < opts[p].start_date
         /\ hist[p].class[k] # "")
        => (/\ hist[p].class[k] = "skip_floor"
            /\ \A path \in hist[p].wrote : dest[path].key # k
            /\ EntryUntouched(p, k))

C3_Witness ==
    /\ pc[1] = "returned_true"
    /\ opts[1].start_date # None
    /\ hist[1].class["d/a.jpg"] = "skip_floor"
    /\ hist[1].date["d/a.jpg"] < opts[1].start_date
    /\ "d/a.jpg" \in DOMAIN copied_files[1]
    /\ hist[1].class["a.jpg"] = "copied"

\* C4: a file whose processing raises is counted once in errors, the run
\* writes no copied_files entry for it, the exception does not leave
\* organize_photos (a run raises only before the walk), and a run that
\* returned True has classified every image file it listed and called
\* save_state.
C4_ErrorIsolation ==
    \A p \in Procs :
        /\ stats[p].errors = Cardinality({k \in Keys : hist[p].class[k] = "error"})
        /\ \A k \in Keys : hist[p].class[k] = "error" => EntryUntouched(p, k)
        /\ pc[p] \in {"raised", "returned_false"} => stats[p].total_found = 0
        /\ (pc[p] = "walk" /\ todo[p] = {} /\ walkDirs[p] = <<>>) =>
              \A k \in hist[p].listed : hist[p].class[k] \in Classified
        /\ pc[p] = "returned_true" =>
              /\ hist[p].saves = 1
              /\ \A k \in hist[p].listed : hist[p].class[k] \in Classified

C4_Witness ==
    /\ pc[1] = "returned_true"
    /\ hist[1].class["a.jpg"] = "error"
    /\ hist[1].class["d/a.jpg"] = "copied"
    /\ stats[1].errors = 1
    /\ hist[1].saves = 1

\* C5: every key in copied_files, in memory or in the sidecar, is the key of a
\* file whose copy once completed, and a run never drops a key it loaded, also
\* when the source file is gone.
C5_SyncState ==
    /\ SidecarKeys \subseteq env.copied
    /\ \A p \in Procs :
        /\ DOMAIN copied_files[p] \subseteq env.copied
        /\ pc[p] \in Running \cup {"returned_true", "killed"} =>
              DOMAIN hist[p].cf0 \subseteq DOMAIN copied_files[p]

C5_Witness ==
    /\ pc[1] = "returned_true"
    /\ ~src[FileOf("a.jpg")].present
    /\ "a.jpg" \in DOMAIN hist[1].cf0
    /\ "a.jpg" \in SidecarKeys
    /\ hist[1].class["d/a.jpg"] = "copied"

\* C6 as stated: every invocation of organize_photos that returns has called
\* save_state exactly once, and none calls it before or during the walk.
C6_Original ==
    \A p \in Procs :
        /\ pc[p] \in {"walk", "copy"} => hist[p].saves = 0
        /\ pc[p] \in {"returned_true", "returned_false"} => hist[p].saves = 1

\* C6 amended: save_state is called exactly once per invocation whose walk
\* finishes, after the walk; it is not called before or during the walk, and
\* an invocation that returns False for a missing source directory, or stops
\* before the walk is over, never calls it.
C6_SaveOnce ==
    \A p \in Procs :
        /\ pc[p] \in {"walk", "copy"} => hist[p].saves = 0
        /\ pc[p] \in {"save", "returned_true"} => hist[p].saves = 1
        /\ pc[p] \in {"returned_false", "raised"} => hist[p].saves = 0
        /\ pc[p] = "killed" => hist[p].saves = (IF hist[p].walked THEN 1 ELSE 0)

C6_Witness ==
    /\ pc[1] = "returned_true"
    /\ hist[1].saves = 1
    /\ stats[1].errors = 1
    /\ stats[1].copied = 1

\* Sidecar content load_state should answer with the default: not JSON, or an
\* object without last_sync or copied_files, or with a last_sync that is no
\* datetime text.
Malformed(sc) ==
    /\ sc.exists
    /\ \/ ~sc.is_json
       \/ "last_sync" \notin DOMAIN sc.obj
       \/ "copied_files" \notin DOMAIN sc.obj
       \/ ~fromisoformat_ok(sc.obj.last_sync)

\* C7: load_state yields the default state for a missing and for every
\* malformed sidecar, so that organize_photos reads last_sync and
\* copied_files from the result without raising.
C7_LoadStateUsable ==
    \A p \in Procs :
        (/\ pc[p] \in Running \cup {"raised", "returned_true", "killed"}
         /\ (~hist[p].sidecar0.exists \/ Malformed(hist[p].sidecar0)))
        => (/\ load_state(hist[p].sidecar0) = DefaultState
            /\ state_usable(load_state(hist[p].sidecar0))
            /\ pc[p] # "raised")

\* What the run of invocation p would save.
OwnState(p) == JsonSidecar(state_copy(last_sync[p], copied_files[p]))

\* C8: the sidecar is replaced atomically: after an interrupt during
\* save_state the sidecar holds the complete state the run started from or the
\* complete state of this run (last_sync the wall-clock time), never a
\* cut-off file.
C8_AtomicSave ==
    \A p \in Procs :
        (pc[p] = "killed" /\ hist[p].saves = 1)
        => (sidecar = hist[p].sidecar0 \/ sidecar = OwnState(p))

\* C9: after an interrupt before save_state the sidecar is what it was when
\* the run started and the files the run copied are in the destination; the
\* next run finds those copies still there, never takes a file whose copy went
\* unrecorded for already synced, and when it copies one into the same bucket
\* again the copy goes to another, suffixed name.
C9_CrashMidWalk ==
    \A p \in Procs :
        /\ (pc[p] = "killed" /\ ~hist[p].walked) =>
              /\ sidecar = hist[p].sidecar0
              /\ \A path \in hist[p].wrote : path \in DOMAIN dest
        /\ \A o \in hist[p].orphans :
              /\ o.path \in DOMAIN dest /\ dest[o.path].key = o.key /\ dest[o.path].ver = o.ver
              /\ o.key \notin DOMAIN hist[p].cf0
              /\ hist[p].class[o.key] # "skip_synced"
              /\ (/\ hist[p].class[o.key] = "copied"
                  /\ strftime_yymmdd(hist[p].date[o.key]) = o.date_folder) =>
                    /\ hist[p].path[o.key] # o.path
                    /\ hist[p].path[o.key] # PlainPath(p, o.key)

C9_Witness ==
    /\ pc[1] = "returned_true"
    /\ \E o \in hist[1].orphans :
          /\ o.key = "a.jpg"
          /\ o.path = "250118/a.jpg"
          /\ hist[1].class["a.jpg"] = "copied"
          /\ hist[1].path["a.jpg"] = "250118/a_1.jpg"
          /\ dest["250118/a_1.jpg"].ver = o.ver

\* C10: a run with forceAll=true never skips a file as already synced; with no
\* floor it skips nothing and every listed image file is copied or an error; a
\* file whose name.ext exists in its bucket while name_1.ext does not is copied
\* to name_1.ext, and what was in the destination stays as it was.
C10_ForceAll ==
    \A p \in Procs :
        opts[p].force_all =>
            /\ \A k \in Keys : hist[p].class[k] # "skip_synced"
            /\ opts[p].start_date = None => stats[p].skipped = 0
            /\ (pc[p] = "returned_true" /\ opts[p].start_date = None) =>
                  \A k \in hist[p].listed : hist[p].class[k] \in {"copied", "error"}
            /\ \A k \in Keys :
                  (/\ hist[p].class[k] = "copied"
                   /\ PlainPath(p, k) \in hist[p].seen[k]
                   /\ FirstSuffixPath(p, k) \notin hist[p].seen[k])
                  => hist[p].path[k] = FirstSuffixPath(p, k)
            /\ \A path \in DOMAIN hist[p].dest0 :
                  path \in DOMAIN dest /\ dest[path] = hist[p].dest0[path]

C10_Witness ==
    /\ pc[1] = "returned_true"
    /\ opts[1].force_all /\ opts[1].start_date = None
    /\ stats[1].copied = 2 /\ stats[1].skipped = 0
    /\ "a.jpg" \in DOMAIN hist[1].cf0
    /\ "250118/a.jpg" \in DOMAIN hist[1].dest0
    /\ hist[1].dest0["250118/a.jpg"].key = "a.jpg"
    /\ hist[1].path["a.jpg"] = "250118/a_1.jpg"
    /\ dest["250118/a_1.jpg"].key = "a.jpg"

\* What of a decision shows in the outcome of a run: the class, and for a copy
\* candidate the date that names its bucket and its copied_files entry.
Outcome(c) == [class |-> c.class, photo_date |-> IF c.class = "copy" THEN c.photo_date ELSE None]

\* The call that makes a variant's first stat of a file.
FirstStat(v, has_pil, file) ==
    IF v = "lulofoto" /\ exif_date(has_pil, file) = None THEN "get_photo_date" ELSE "getmtime"

\* C11: with no date floor the two variants decide every file alike. For every
\* image file a walk has listed (present or vanished since), in the sync state
\* the walk runs with and for either forceAll, the try block of lulofoto.py
\* and that of bak-foto.py give the same class (copy candidate, skipped,
\* error) and the same photo date for a copy candidate: with no failure, with
\* a failing makedirs, and with a failing first stat of the file. What follows
\* the decision (planning, copy, record, counts) is the same code.
C11_VariantEquivalence ==
    \A p \in Procs : \A f \in todo[p] : \A o \in Options("bak-foto") :
        (pc[p] = "walk" /\ is_image_file(f)) =>
            /\ \A fault \in {"none", "makedirs"} :
                  Outcome(decide_lulofoto(HAS_PIL, o, last_sync[p], copied_files[p],
                                          src[f], file_key(f), fault))
                  = Outcome(decide_bak_foto(HAS_PIL, o, last_sync[p], copied_files[p],
                                            src[f], file_key(f), fault))
            /\ Outcome(decide_lulofoto(HAS_PIL, o, last_sync[p], copied_files[p], src[f],
                                       file_key(f), FirstStat("lulofoto", HAS_PIL, src[f])))
               = Outcome(decide_bak_foto(HAS_PIL, o, last_sync[p], copied_files[p], src[f],
                                         file_key(f), FirstStat("bak-foto", HAS_PIL, src[f])))

\* A walk is about to decide a file that is recorded as copied, not newer than
\* last_sync, and has vanished since it was listed.
C11_Witness ==
    /\ pc[1] = "walk"
    /\ ~opts[1].force_all /\ opts[1].start_date = None
    /\ last_sync[1] # None
    /\ \E f \in todo[1] :
          /\ is_image_file(f)
          /\ ~src[f].present
          /\ file_key(f) \in DOMAIN copied_files[1]

\* The YYMMDD names of the sampled datetimes, written out.
YYMMDD(t) ==
    IF t <= Len(Past) THEN <<"250118", "250117", "250118", "250118", "250119">>[t]
    ELSE "250201"

\* The names a file can get in a folder: its own, or its own with a suffix.
NamesIn(folder, f) ==
    {join(folder, filename(f))}
    \cup {join(folder, f.base \o "_" \o ToString(n) \o f.ext) : n \in 1..(Cardinality(DOMAIN dest) + 1)}

\* C12: every file planned for a copy or copied goes directly into the folder
\* named by the two-digit year, month and day of its resolved photo date,
\* under its own name (with a suffix or not), whatever source directory it
\* was found in; that folder is made under the destination root.
C12_Bucketing ==
    \A p \in Procs : \A k \in Keys :
        hist[p].class[k] \in {"copy", "copied"} =>
            /\ hist[p].path[k] \in NamesIn(YYMMDD(hist[p].date[k]), FileOf(k))
            /\ YYMMDD(hist[p].date[k]) \in folders

\* d/a.jpg, dated 1925-01-18 by its metadata, sits in 250118 beside a.jpg of
\* the source root.
C12_Witness ==
    /\ hist[1].class["a.jpg"] = "copied" /\ hist[1].path["a.jpg"] = "250118/a.jpg"
    /\ hist[1].class["d/a.jpg"] = "copied" /\ hist[1].path["d/a.jpg"] = "250118/a_1.jpg"
    /\ hist[1].date["d/a.jpg"] = 1
    /\ dest["250118/a_1.jpg"].key = "d/a.jpg"

\* C13: get_photo_date raises for no file handed to it: not for any image
\* file a walk has listed, whether it has metadata or not, is readable or
\* not, or has vanished since it was listed.
C13_NeverFails ==
    \A p \in Procs : \A f \in todo[p] :
        (pc[p] = "walk" /\ is_image_file(f)) => ~get_photo_date(HAS_PIL, src[f], FALSE).raised

\* No date is to be had from the file's metadata: the library is missing, the
\* file does not open as an image with metadata, or no date entry parses.
NoMetadata(has_pil, file) ==
    \/ ~has_pil
    \/ ~file.img
    \/ \A i \in 1..Len(file.exif) : ~(file.exif[i].tag \in DATE_TAGS /\ file.exif[i].parses)

\* C14: whenever a step resolves the photo date of a file from which no date
\* is to be had by metadata, the date is the modification time the file has at
\* that step, and a copy candidate is planned into the folder named by that
\* modification time.
C14_Fallback ==
    [][\A p \in Procs : \A k \in Keys :
          (/\ hist[p].class[k] = "" /\ hist'[p].class[k] # ""
           /\ hist'[p].date[k] # None
           /\ NoMetadata(HAS_PIL, src[FileOf(k)]))
          => (/\ hist'[p].date[k] = src[FileOf(k)].mtime
              /\ hist'[p].class[k] = "copy" =>
                    /\ cur'[p].date_folder = YYMMDD(src[FileOf(k)].mtime)
                    /\ cur'[p].dest_path \in NamesIn(YYMMDD(src[FileOf(k)].mtime), FileOf(k)))]_vars

\* Without the image library a.jpg, whose metadata say 2025-01-18, is copied
\* into the folder of its modification time, 2025-01-17; and d/a.jpg, whose
\* metadata hold no date that parses or cannot be read, into that of its own.
C14_Witness ==
    /\ ~HAS_PIL
    /\ hist[1].class["a.jpg"] = "copied"
    /\ hist[1].date["a.jpg"] = 2
    /\ "250117/a.jpg" \in DOMAIN dest
    /\ src[FileOf("d/a.jpg")].exif # <<>>
    /\ hist[1].class["d/a.jpg"] = "copied"
    /\ hist[1].date["d/a.jpg"] = 4
    /\ hist[1].path["d/a.jpg"] = "250118/a.jpg"

\* C15: a run on a missing source directory ends with status 1 and has made
\* no destination directory, folder, copy or sidecar; every other run that
\* ends, ends with status 0.
C15_ExitStatus ==
    \A p \in Procs :
        pc[p] \in {"returned_true", "returned_false", "raised"} =>
            IF srcExists
            THEN exit_status(pc[p]) = 0
            ELSE /\ exit_status(pc[p]) = 1
                 /\ pc[p] = "returned_false"
                 /\ destExists = hist[p].sidecar0.exists
                 /\ folders = {} /\ dest = hist[p].dest0 /\ sidecar = hist[p].sidecar0

\* The sidecar on disk is not the state this run holds: the save failed.
SaveFailed(p) == pc[p] = "returned_true" /\ sidecar # OwnState(p)

\* C16: a failure in save_state never leaves organize_photos as an exception
\* (after the walk a run is in save_state, has returned True, or was
\* interrupted), and a run that returned True with the sidecar not written
\* still holds the counts of its walk and its copies are in the destination.
C16_DegradedPersistence ==
    \A p \in Procs :
        /\ hist[p].walked => pc[p] \in {"save", "returned_true", "killed"}
        /\ SaveFailed(p) =>
              /\ hist[p].saves = 1
              /\ stats[p].total_found = Cardinality(hist[p].listed)
              /\ stats[p].copied = Cardinality({k \in Keys : hist[p].class[k] = "copied"})
              /\ stats[p].errors = Cardinality({k \in Keys : hist[p].class[k] = "error"})
              /\ stats[p].skipped =
                    Cardinality({k \in Keys : hist[p].class[k] \in {"skip_floor", "skip_synced"}})
              /\ \A k \in Keys : hist[p].class[k] = "copied" =>
                    /\ hist[p].path[k] \in DOMAIN dest
                    /\ dest[hist[p].path[k]].key = k

\* Both files copied, the run returned True, and the sidecar is a cut-off file
\* or was never made.
C16_Witness ==
    /\ SaveFailed(1)
    /\ stats[1].copied = 2
    /\ sidecar \in {BrokenSidecar, NoSidecar}
    /\ "250118/a.jpg" \in DOMAIN dest /\ "250118/a_1.jpg" \in DOMAIN dest

\* C20: in a run with a date floor no file is skipped as already synced, and
\* every file whose photo date is the floor or later is a copy candidate
\* unless its processing raises: whatever last_sync, copied_files and
\* forceAll are.
C20_FloorPrecedence ==
    \A p \in Procs : \A k \in Keys :
        opts[p].start_date # None =>
            /\ hist[p].class[k] # "skip_synced"
            /\ (/\ hist[p].date[k] # None
                /\ hist[p].date[k] >= opts[p].start_date
                /\ hist[p].class[k] \notin {"", "error"})
               => hist[p].class[k] \in {"copy", "copied"}

\* d/a.jpg, taken at the floor itself, recorded by the run before and not
\* touched since, is copied again by a run with the floor and no forceAll.
C20_Witness ==
    /\ opts[1].start_date = 3 /\ ~opts[1].force_all
    /\ hist[1].date["d/a.jpg"] = 3
    /\ "d/a.jpg" \in DOMAIN hist[1].cf0
    /\ last_sync[1] # None
    /\ hist[1].class["d/a.jpg"] = "copied"
    /\ src[FileOf("d/a.jpg")].ver = 1

\* C17: the existence check is made at planning (the planned path did not
\* exist then), nothing holds the path until the copy, and a copy lands on an
\* existing path only when invocations have run at the same time.
C17_ConcurrentWriters ==
    /\ \A p \in Procs :
          pc[p] = "copy" => cur[p].dest_path \notin hist[p].seen[file_key(cur[p].f)]
    /\ Cardinality(DOMAIN dest) < env.writes => env.overlap

\* Two invocations planned the same path for different files and both copied:
\* one copy is gone.
C17_Witness ==
    \E k1, k2 \in Keys :
        /\ k1 # k2
        /\ hist[1].class[k1] = "copied" /\ hist[2].class[k2] = "copied"
        /\ hist[1].path[k1] = hist[2].path[k2]
        /\ Cardinality(DOMAIN dest) < env.writes
        /\ env.overlap

\* The texts that are a date in YYMMDD form.
ValidYYMMDD == {"250118"}

\* C18: while an invocation of main is under way or over whose --start-date
\* text is no valid YYMMDD date, or that has no source or destination from
\* the command line or the saved config, no step makes the destination
\* directory, a folder, a copy, the sidecar or the config file, and the
\* invocation does not end with status 0.
C18_InputRejected ==
    [][\A p \in Procs :
          (/\ pc'[p] # "idle"
           /\ \/ argv'[p].start_date.given /\ argv'[p].start_date.text \notin ValidYYMMDD
              \/ ~have_paths(argv'[p], config))
          => /\ pc'[p] # "exit_0"
             /\ destExists' = destExists /\ folders' = folders /\ dest' = dest
             /\ sidecar' = sidecar /\ config' = config]_vars

\* C19: a step that classifies a file, neither as an error nor as before the
\* floor, makes it skipped exactly when forceAll is false, no floor is set,
\* last_sync exists, the file's modification time at that step is not after
\* last_sync and its key is in copied_files; then skipped is counted and
\* copied_files stays. Otherwise the file is a copy candidate, and the step
\* that copies it sets copied_files[key] to the text of its photo date, counts
\* it as copied and puts the file at the planned path.
C19_SkipRule ==
    [][\A p \in Procs : \A k \in Keys :
          /\ (hist[p].class[k] = "" /\ hist'[p].class[k] \notin {"", "error", "skip_floor"}) =>
                IF /\ ~opts[p].force_all
                   /\ opts[p].start_date = None
                   /\ last_sync[p] # None
                   /\ src[FileOf(k)].mtime <= last_sync[p]
                   /\ k \in DOMAIN copied_files[p]
                THEN /\ hist'[p].class[k] = "skip_synced"
                     /\ stats'[p].skipped = stats[p].skipped + 1
                     /\ copied_files' = copied_files /\ dest' = dest
                ELSE hist'[p].class[k] = "copy"
          /\ (hist[p].class[k] = "copy" /\ hist'[p].class[k] = "copied") =>
                /\ k \in DOMAIN copied_files'[p]
                /\ copied_files'[p][k] = isoformat(hist[p].date[k])
                /\ stats'[p].copied = stats[p].copied + 1
                /\ dest'[hist[p].path[k]].key = k]_vars

\* A rerun skips a.jpg, recorded and untouched, and copies d/a.jpg, recorded
\* but with a modification time after last_sync, and records its photo date
\* anew.
C19_Witness ==
    /\ ~opts[1].force_all /\ opts[1].start_date = None
    /\ {"a.jpg", "d/a.jpg"} \subseteq DOMAIN hist[1].cf0
    /\ hist[1].class["a.jpg"] = "skip_synced"
    /\ hist[1].class["d/a.jpg"] = "copied"
    /\ src[FileOf("d/a.jpg")].mtime > last_sync[1]
    /\ copied_files[1]["d/a.jpg"] = isoformat(hist[1].date["d/a.jpg"])
    /\ stats[1].skipped = 1 /\ stats[1].copied = 1

\* The places in the metadata where a date entry stands whose value parses.
Candidates(exif) ==
    { i \in 1..Len(exif) :
        /\ exif[i].tag \in {"DateTimeOriginal", "DateTime", "DateTimeDigitized"}
        /\ exif[i].parses }

\* C21: the photo date resolved for a file is the date of the earliest entry,
\* in the order of the metadata, that carries one of the three date tags and
\* parses, whatever its tag and whatever entries that do not parse stand
\* before it; without such an entry (or without the image library, or for a
\* file it cannot open) it is the modification time.
C21_FirstMatch ==
    \A k \in Keys :
        hist[1].class[k] \notin {"", "error"} =>
            LET file == src[FileOf(k)]
                c == Candidates(file.exif)
            IN  IF HAS_PIL /\ file.img /\ c # {}
                THEN \E i \in c : /\ \A j \in c : i <= j
                                  /\ hist[1].date[k] = file.exif[i].t
                ELSE hist[1].date[k] = file.mtime

\* d/a.jpg holds a date entry that does not parse, then DateTime, then
\* DateTimeOriginal with another date: it is copied under the DateTime date.
C21_Witness ==
    LET e == src[FileOf("d/a.jpg")].exif
    IN  /\ HAS_PIL
        /\ Len(e) = 3
        /\ e[1].tag = "DateTimeOriginal" /\ ~e[1].parses
        /\ e[2].tag = "DateTime" /\ e[2].parses
        /\ e[3].tag = "DateTimeOriginal" /\ e[3].parses /\ e[3].t # e[2].t
        /\ hist[1].class["d/a.jpg"] = "copied"
        /\ hist[1].date["d/a.jpg"] = e[2].t
        /\ copied_files[1]["d/a.jpg"] = isoformat(e[2].t)

\* C22: a copy candidate is planned, and then copied, to folder/name.ext when
\* that path did not exist at planning, and otherwise to folder/name_k.ext with
\* k >= 1 the least number whose path did not exist, the suffix standing
\* before the extension; k is at most one more than the number of paths that
\* existed, so the search ends.
C22_Suffixing ==
    \A k \in Keys :
        hist[1].class[k] \in {"copy", "copied"} =>
            LET f == FileOf(k)
                folder == YYMMDD(hist[1].date[k])
                seen == hist[1].seen[k]
                plain == folder \o "/" \o f.base \o f.ext
                name(n) == folder \o "/" \o f.base \o "_" \o ToString(n) \o f.ext
            IN  /\ IF plain \notin seen
                   THEN hist[1].path[k] = plain
                   ELSE \E n \in 1..(Cardinality(seen) + 1) :
                           /\ hist[1].path[k] = name(n)
                           /\ name(n) \notin seen
                           /\ \A j \in 1..(n - 1) : name(j) \in seen
                /\ hist[1].class[k] = "copied" =>
                       /\ hist[1].path[k] \in DOMAIN dest
                       /\ dest[hist[1].path[k]].key = k

\* Folder 250118 held a.jpg, a_1.jpg and a_3.jpg: a.jpg of the source went to
\* a_2.jpg, and d/a.jpg after it to a_4.jpg.
C22_Witness ==
    /\ {"250118/a.jpg", "250118/a_1.jpg", "250118/a_3.jpg"} \subseteq DOMAIN hist[1].dest0
    /\ "250118/a_2.jpg" \notin DOMAIN hist[1].dest0
    /\ hist[1].class["a.jpg"] = "copied" /\ hist[1].path["a.jpg"] = "250118/a_2.jpg"
    /\ hist[1].class["d/a.jpg"] = "copied" /\ hist[1].path["d/a.jpg"] = "250118/a_4.jpg"
    /\ dest["250118/a_2.jpg"].key = "a.jpg" /\ dest["250118/a_4.jpg"].key = "d/a.jpg"

\* The destination holds a whole copy of the content the file has now.
HasCurrentCopy(k) ==
    \E path \in DOMAIN dest :
        /\ dest[path].key = k
        /\ dest[path].whole
        /\ dest[path].ver = src[FileOf(k)].ver

\* C23: a file that was an error in one run, the source not having changed,
\* is not skipped as already synced by the next run made without forceAll and
\* without a date floor; stated for the files whose current content the
\* destination does not hold, where the skip leaves it uncopied.
C23_FailedIsRetried ==
    \A k \in Keys :
        (/\ k \in hist[1].failed
         /\ ~opts[1].force_all /\ opts[1].start_date = None
         /\ ~env.dirty
         /\ ~HasCurrentCopy(k))
        => hist[1].class[k] # "skip_synced"

\* C24: a file is skipped as already synced only when the destination holds
\* a whole copy of the content it has now; stated for the files rewritten
\* while an earlier run was walking the source, before that run set
\* last_sync.
C24_SkipSound ==
    [][\A k \in Keys :
          (/\ hist[1].class[k] = "" /\ hist'[1].class[k] = "skip_synced"
           /\ \E m \in env.midrun : m.key = k /\ m.run < env.runs)
          => HasCurrentCopy(k)]_vars

\* The files of the current run classified as one of S.
CountOf(S) == Cardinality({k \in Keys : hist[1].class[k] \in S})

\* The paths at which a failed copy of this run left a file.
Residue ==
    { path \in hist[1].wrote :
        \E k \in Keys : /\ hist[1].class[k] = "error"
                        /\ hist[1].path[k] = path
                        /\ dest[path].key = k }

\* C25 as first stated: once the walk is over, total_found is the sum of the
\* other three counts and copied is the number of files the run wrote to the
\* destination.
C25_Original ==
    hist[1].walked =>
        /\ stats[1].total_found = stats[1].copied + stats[1].skipped + stats[1].errors
        /\ stats[1].copied = Cardinality(hist[1].wrote)

\* C25: each image file the walk has taken up is counted once in total_found
\* and, once classified, once in exactly one of copied, skipped and errors;
\* when the walk is over every listed image file is counted and total_found
\* is the sum of the three; the files the run wrote are those it counts as
\* copied and those a failed copy left behind, which it counts as errors.
C25_Accounting ==
    /\ stats[1].total_found = CountOf({"copy", "copied", "skip_floor", "skip_synced", "error"})
    /\ stats[1].copied = CountOf({"copied"})
    /\ stats[1].skipped = CountOf({"skip_floor", "skip_synced"})
    /\ stats[1].errors = CountOf({"error"})
    /\ hist[1].walked =>
          /\ stats[1].total_found = Cardinality(hist[1].listed)
          /\ stats[1].total_found = stats[1].copied + stats[1].skipped + stats[1].errors
    /\ Cardinality(hist[1].wrote) = stats[1].copied + Cardinality(Residue)

\* A run that copied a.jpg and failed on d/a.jpg part-way through the copy:
\* two files written, one counted as copied, one as an error.
C25_Witness ==
    /\ pc[1] = "returned_true"
    /\ stats[1] = [total_found |-> 2, copied |-> 1, skipped |-> 0, errors |-> 1]
    /\ hist[1].class["a.jpg"] = "copied" /\ hist[1].class["d/a.jpg"] = "error"
    /\ Cardinality(hist[1].wrote) = 2
    /\ hist[1].path["d/a.jpg"] \in DOMAIN dest /\ ~dest[hist[1].path["d/a.jpg"]].whole

====
